---- MODULE Spec2Model ----
(***************************************************************************)
(* FreeFormAPI: the anti-automation session engine.                        *)
(*   SessionService   (services/session.service.ts)                        *)
(*   FormService      (services/form.service.ts)                           *)
(*   SessionController(controllers/session.controller.ts)                  *)
(*   RateLimitMiddleware (middleware/rate-limit.ts)                        *)
(* Every Redis / PostgreSQL call is one atomic step; the code between two  *)
(* awaits runs with the step that ends at the next await.                  *)
(***************************************************************************)
EXTENDS Integers, Sequences, FiniteSets, TLC

(* ------------------------------ bounds --------------------------------- *)
\* number of concurrent HTTP requests
NReq == 3
\* session ids differ in their 8th character (NPrefix) and 9th (NSuffix)
NPrefix == 1
NSuffix == 2
\* number of client addresses
NIp == 1
\* SESSION_CONFIG.MAX_ATTEMPTS, scaled down (default 5)
MAX_ATTEMPTS == 2
\* RATE_LIMIT_CONFIG.MAX_REQUESTS, scaled down (default 100)
MAX_REQUESTS == 2

(* ----------------------------- constants ------------------------------- *)
\* SESSION_CONFIG.TTL, seconds
SESSION_TTL == 600
\* TTL written by markSessionAsUsed, seconds
USED_TTL == 300
\* RATE_LIMIT_CONFIG.WINDOW_MS
WINDOW_MS == 3600000
\* length of the session id slice used for the honeypot field name
HP_SLICE == 8

Reqs == 1..NReq
Ips == 1..NIp

\* a string is a sequence of characters; the prefix '_hp_' is one token
HP_PREFIX == "_hp_"
EmptyId == << >>
MkId(a, b) == <<"0", "0", "0", "0", "0", "0", "0", ToString(a), ToString(b)>>
SessionIds == {MkId(a, b) : a \in 1..NPrefix, b \in 1..NSuffix}
\* a run in which one session id is in play
OneId == {MkId(1, 1)}

Min(a, b) == IF a < b THEN a ELSE b

\* String.prototype.slice(0, n)
Slice(s, n) == SubSeq(s, 1, Min(n, Len(s)))

\* String.prototype.startsWith('_hp_')
StartsWithHp(name) == Len(name) >= 1 /\ name[1] = HP_PREFIX

generateHoneypotFieldName_WholeId(sessionId) == <<HP_PREFIX>> \o sessionId

generateHoneypotFieldName(sessionId) == <<HP_PREFIX>> \o Slice(sessionId, HP_SLICE)

(* ------------------------------ values --------------------------------- *)
Null == [absent |-> TRUE]
Undefined == "undefined"
NoStamp == 0
\* what the Redis TTL command returns for a key without expiry, for an absent key
NoTtl == -1
NoKey == -2

\* field values of a request body, by what the checks can tell apart:
\* "" empty, " " whitespace only, "x" well formed, "bad" malformed e-mail,
\* "long" longer than the field's limit
Absent == "<absent>"
Field(body, name) == IF name \in DOMAIN body THEN body[name] ELSE Absent
Truthy(v) == v # Absent /\ v # ""
Trim(v) == IF v = " " THEN "" ELSE v

F_formId == <<"formId">>
F_email == <<"email">>
F_message == <<"message">>

NewSessionData_Attempted(sessionId, now) ==
  [honeypotField |-> generateHoneypotFieldName(sessionId),
   createdAt |-> now, used |-> FALSE, attempts |-> 1,
   lastAccess |-> NoStamp, usedAt |-> NoStamp,
   ip |-> Undefined, userAgent |-> Undefined]

(* SessionData as created *)
NewSessionData(sessionId, now) ==
  [honeypotField |-> generateHoneypotFieldName(sessionId),
   createdAt |-> now, used |-> FALSE, attempts |-> 0,
   lastAccess |-> NoStamp, usedAt |-> NoStamp,
   ip |-> Undefined, userAgent |-> Undefined]

(* ------------------------- SessionService ------------------------------ *)
validateSession_UsedLast(sessionId, session) ==
  IF sessionId = EmptyId THEN [valid |-> FALSE, code |-> "SESSION_REQUIRED"]
  ELSE IF session = Null THEN [valid |-> FALSE, code |-> "SESSION_INVALID"]
  ELSE IF session.attempts >= MAX_ATTEMPTS THEN [valid |-> FALSE, code |-> "MAX_ATTEMPTS"]
  ELSE IF session.used THEN [valid |-> FALSE, code |-> "SESSION_USED"]
  ELSE [valid |-> TRUE, code |-> "NONE"]

validateSession(sessionId, session) ==
  IF sessionId = EmptyId THEN [valid |-> FALSE, code |-> "SESSION_REQUIRED"]
  ELSE IF session = Null THEN [valid |-> FALSE, code |-> "SESSION_INVALID"]
  ELSE IF session.used THEN [valid |-> FALSE, code |-> "SESSION_USED"]
  ELSE IF session.attempts >= MAX_ATTEMPTS THEN [valid |-> FALSE, code |-> "MAX_ATTEMPTS"]
  ELSE [valid |-> TRUE, code |-> "NONE"]

checkHoneypotSpam_CurrentOnly(body, session) ==
  LET v == Field(body, session.honeypotField) IN Truthy(v) /\ Trim(v) # ""

checkHoneypotSpam(body, session) ==
  \/ LET v == Field(body, session.honeypotField) IN Truthy(v) /\ Trim(v) # ""
  \/ \E field \in DOMAIN body :
       /\ StartsWithHp(field)
       /\ Truthy(body[field]) /\ Trim(body[field]) # ""

\* FormService.validateFormData: the errors collected, as {field, message} pairs
FormErrors(body, sessionId, session) ==
  LET formId == Field(body, F_formId)
      email == Field(body, F_email)
      hp == Field(body, session.honeypotField)
  IN  (IF ~Truthy(formId) \/ Trim(formId) = ""
         THEN {[field |-> F_formId, message |-> "REQUIRED"]}
       ELSE IF formId = "long" THEN {[field |-> F_formId, message |-> "TOO_LONG"]}
       ELSE {})
      \cup
      (IF ~Truthy(email) \/ Trim(email) = ""
         THEN {[field |-> F_email, message |-> "REQUIRED"]}
       ELSE IF email = "bad" THEN {[field |-> F_email, message |-> "BAD_FORMAT"]}
       ELSE IF email = "long" THEN {[field |-> F_email, message |-> "TOO_LONG"]}
       ELSE {})
      \cup
      (IF Field(body, F_message) = "long"
         THEN {[field |-> F_message, message |-> "TOO_LONG"]} ELSE {})
      \cup
      (IF sessionId = EmptyId
         THEN {[field |-> <<"_sessionId">>, message |-> "REQUIRED"]} ELSE {})
      \cup
      (IF Truthy(hp) /\ Trim(hp) # ""
         THEN {[field |-> session.honeypotField, message |-> "MUST_BE_EMPTY"]} ELSE {})

validateFormData(body, sessionId, session) ==
  LET errors == FormErrors(body, sessionId, session)
  IN  [success |-> errors = {}, errors |-> errors]

(* ------------------------------ state ---------------------------------- *)
VARIABLES
  store,          \* Redis: session:<id> -> SessionData, Null when the key is absent
  ttl,            \* Redis: TTL of session:<id>, 0 when the key is absent
  gone,           \* history: session:<id> has been deleted or has expired
  issued,         \* session ids generateSessionId has returned so far
  createLog,      \* GET /api/session calls so far: the id drawn, whether it was stored, the response
  db,             \* PostgreSQL: rows of form_submissions
  rlCount,        \* Redis: rate_limit:<ip> counter, 0 when the key is absent
  rlTtl,          \* Redis: TTL of rate_limit:<ip>: -2 absent, -1 no expiry, else seconds
  rlWindow,       \* how many times rate_limit:<ip> has expired
  pc,             \* position of each request handler
  kind,           \* the endpoint each request is for
  sid,            \* the session id each request carries
  body,           \* the submitted field map
  ip,             \* request.ip
  sess,           \* submitForm / controller local: what getSession returned
  tmp,            \* the record a service call read and is about to write back
  val,            \* the code validateSession returned
  isSpam,         \* submitForm local: what checkHoneypotSpam returned
  ctx,            \* the branch of submitForm the request is in
  result,         \* what submitForm returned (FormSubmitResult)
  out,            \* the HTTP response sent
  obs,            \* middleware local: results of multi.exec()
  rlError,        \* middleware local: the Redis call whose error the catch block received
  afterAccepted,  \* history: the request started after an accepted submission of its session returned
  calls,          \* history: the SessionService and DatabaseService calls each request has made
  HONEYPOT_ENABLED,    \* SECURITY_CONFIG.HONEYPOT_ENABLED
  RATE_LIMIT_ENABLED,  \* RATE_LIMIT_CONFIG.ENABLED
  idPool,         \* environment: the ids randomBytes yields in this run, and clients send
  redisFails,     \* environment: Redis calls may reject
  dbFails         \* environment: PostgreSQL queries may reject

storeVars == <<store, ttl, gone>>
rlVars == <<rlCount, rlTtl, rlWindow, obs, rlError>>
cfgVars == <<HONEYPOT_ENABLED, RATE_LIMIT_ENABLED, idPool, redisFails, dbFails>>
reqLocals == <<kind, sid, body, ip, afterAccepted>>
vars == <<store, ttl, gone, issued, createLog, calls, db, rlCount, rlTtl, rlWindow, pc, kind, sid,
          body, ip, sess, tmp, val, isSpam, ctx, result, out, obs, rlError, afterAccepted,
          HONEYPOT_ENABLED, RATE_LIMIT_ENABLED, idPool, redisFails, dbFails>>

NoResult == [none |-> TRUE]
Threw == [threw |-> TRUE]
NoObs == [none |-> TRUE]
\* no SessionService or DatabaseService call made yet
NoCalls ==
  [getSession |-> 0, incrementAttempts |-> 0, markSessionAsUsed |-> 0,
   saveSpamSubmission |-> 0, saveFormSubmission |-> 0]
UserAgent == "ua"

\* outcomes of a Redis call / of a PostgreSQL query
RedisOutcomes == IF redisFails THEN {TRUE, FALSE} ELSE {TRUE}
DbOutcomes == IF dbFails THEN {TRUE, FALSE} ELSE {TRUE}

\* Date.now() taken by request r; distinct calls are told apart by their caller
Now(r) == r
CreateStamp == NReq + 1

\* the field maps a client sends with session id s
BodyLegit == (F_formId :> "x") @@ (F_email :> "x")
BodyInvalid == (F_formId :> "x") @@ (F_email :> "bad")
BodySpam(s) == BodyLegit @@ (generateHoneypotFieldName(s) :> "x")
Bodies(s) == {BodyLegit, BodyInvalid, BodySpam(s)}

InitCommon ==
  /\ store = [s \in SessionIds |-> Null]
  /\ ttl = [s \in SessionIds |-> 0]
  /\ gone = [s \in SessionIds |-> FALSE]
  /\ issued = {}
  /\ createLog = {}
  /\ calls = [r \in Reqs |-> NoCalls]
  /\ db = {}
  /\ rlCount = [i \in Ips |-> 0]
  /\ rlTtl = [i \in Ips |-> NoKey]
  /\ rlWindow = [i \in Ips |-> 0]
  /\ pc = [r \in Reqs |-> "idle"]
  /\ kind = [r \in Reqs |-> "none"]
  /\ sid = [r \in Reqs |-> EmptyId]
  /\ body = [r \in Reqs |-> << >>]
  /\ ip = [r \in Reqs |-> 1]
  /\ sess = [r \in Reqs |-> Null]
  /\ tmp = [r \in Reqs |-> Null]
  /\ val = [r \in Reqs |-> "NONE"]
  /\ isSpam = [r \in Reqs |-> FALSE]
  /\ ctx = [r \in Reqs |-> "none"]
  /\ result = [r \in Reqs |-> NoResult]
  /\ out = [r \in Reqs |-> NoResult]
  /\ obs = [r \in Reqs |-> NoObs]
  /\ rlError = [r \in Reqs |-> "none"]
  /\ afterAccepted = [r \in Reqs |-> FALSE]


(* -------------------- SessionService.createSession --------------------- *)
Lookup(s) == IF s \in SessionIds THEN store[s] ELSE Null

\* request r enters the SessionService method f
Called(r, f) == [calls EXCEPT ![r][f] = @ + 1]

createSession_Fallback(sessionId, ok) ==
  [threw |-> FALSE,
   session |-> [sessionId |-> sessionId,
                honeypotField |-> generateHoneypotFieldName(sessionId),
                expiresIn |-> SESSION_TTL]]

\* createSession returns a NewSession, or throws when redis.setex rejects
createSession(sessionId, ok) ==
  IF ok
    THEN [threw |-> FALSE,
          session |-> [sessionId |-> sessionId,
                       honeypotField |-> generateHoneypotFieldName(sessionId),
                       expiresIn |-> SESSION_TTL]]
    ELSE [threw |-> TRUE, session |-> Null]

\* SessionController.create: the reply for what createSession returned or threw
CreateResponse(res) ==
  IF res.threw
    THEN [status |-> 500, success |-> FALSE, data |-> Null]
    ELSE [status |-> 200, success |-> TRUE, data |-> res.session]

\* SessionController.create: GET /api/session, generateSessionId draws a new id
CreateSession ==
  \E sessionId \in idPool \ issued : \E ok \in RedisOutcomes :
    LET res == createSession(sessionId, ok) IN
    /\ issued' = issued \cup {sessionId}
    /\ IF ok
         THEN /\ store' = [store EXCEPT ![sessionId] = NewSessionData(sessionId, CreateStamp)]
              /\ ttl' = [ttl EXCEPT ![sessionId] = SESSION_TTL]
              /\ UNCHANGED gone
         ELSE UNCHANGED storeVars
    /\ createLog' = createLog \cup
         {[sessionId |-> sessionId, stored |-> ok, response |-> CreateResponse(res)]}
    /\ UNCHANGED <<calls, db, pc, sess, tmp, val, isSpam, ctx, result, out>>
    /\ UNCHANGED <<reqLocals, rlVars, cfgVars>>

(* ------------------------- request entry points ------------------------ *)
\* requests are interchangeable: they are started in index order
MayStart(r) == pc[r] = "idle" /\ \A q \in Reqs : q < r => pc[q] # "idle"

Accepted(r) ==
  /\ kind[r] = "submit" /\ pc[r] = "done"
  /\ result[r] # Threw /\ result[r] # NoResult /\ result[r].success

\* FormController.submit -> FormService.submitForm(body, clientIp, userAgent)
EnterSubmit(r, s, b, i) ==
  /\ kind' = [kind EXCEPT ![r] = "submit"]
  /\ sid' = [sid EXCEPT ![r] = s]
  /\ body' = [body EXCEPT ![r] = b]
  /\ ip' = [ip EXCEPT ![r] = i]
  /\ afterAccepted' = [afterAccepted EXCEPT ![r] =
                         \E q \in Reqs : q # r /\ sid[q] = s /\ Accepted(q)]
  /\ pc' = [pc EXCEPT ![r] = "gs_get"]

StartSubmit(r) ==
  /\ MayStart(r)
  /\ \E s \in idPool \cup {EmptyId} : \E b \in Bodies(s) : \E i \in Ips :
       EnterSubmit(r, s, b, i)
  /\ UNCHANGED <<storeVars, issued, createLog, calls, db, sess, tmp, val, isSpam, ctx, result, out>>
  /\ UNCHANGED <<rlVars, cfgVars>>

\* SessionController.validate / get / delete: the route parameter
StartIntrospect(r) ==
  /\ MayStart(r)
  /\ \E k \in {"validate", "get", "delete"} : \E s \in idPool :
       /\ kind' = [kind EXCEPT ![r] = k]
       /\ sid' = [sid EXCEPT ![r] = s]
       /\ pc' = [pc EXCEPT ![r] = IF k = "delete" THEN "del" ELSE "gs_get"]
  /\ UNCHANGED <<storeVars, issued, createLog, calls, db, body, ip, afterAccepted>>
  /\ UNCHANGED <<sess, tmp, val, isSpam, ctx, result, out, rlVars, cfgVars>>

(* ---------------------- responses of the controllers ------------------- *)
\* FormController.submit: the response built from a FormSubmitResult
SubmitResponse(res) ==
  IF res = Threw
    THEN [status |-> 500, success |-> FALSE, message |-> "INTERNAL_ERROR",
          submissionId |-> 0, errors |-> {}]
    ELSE [status |-> IF res.success THEN 200 ELSE 400,
          success |-> res.success, message |-> res.message,
          submissionId |-> res.submissionId,
          errors |-> IF res.success THEN {} ELSE res.errors]

\* SessionController.validate
ValidateResponse(sessionId, session) ==
  LET v == validateSession(sessionId, session) IN
  [status |-> IF v.valid THEN 200 ELSE 400,
   success |-> v.valid,
   message |-> v.code,
   data |-> [sessionId |-> sessionId,
             isValid |-> v.valid,
             isUsed |-> IF session = Null THEN FALSE ELSE session.used,
             attempts |-> IF session = Null THEN 0 ELSE session.attempts,
             honeypotField |-> IF session = Null THEN << >> ELSE session.honeypotField,
             errorCode |-> v.code]]

GetResponse_WithIp(sessionId, session) ==
  IF session = Null
    THEN [status |-> 404, success |-> FALSE, message |-> "NOT_FOUND", data |-> Null]
    ELSE [status |-> 200, success |-> TRUE, message |-> "OK",
          data |-> [sessionId |-> sessionId,
                    honeypotField |-> session.honeypotField,
                    createdAt |-> session.createdAt,
                    lastAccess |-> session.lastAccess,
                    used |-> session.used,
                    attempts |-> session.attempts,
                    ip |-> session.ip]]

\* SessionController.get
GetResponse(sessionId, session) ==
  IF session = Null
    THEN [status |-> 404, success |-> FALSE, message |-> "NOT_FOUND", data |-> Null]
    ELSE [status |-> 200, success |-> TRUE, message |-> "OK",
          data |-> [sessionId |-> sessionId,
                    honeypotField |-> session.honeypotField,
                    createdAt |-> session.createdAt,
                    lastAccess |-> session.lastAccess,
                    used |-> session.used,
                    attempts |-> session.attempts]]

\* submitForm returns res and the controller answers
Return(r, res) ==
  /\ result' = [result EXCEPT ![r] = res]
  /\ out' = [out EXCEPT ![r] = SubmitResponse(res)]
  /\ pc' = [pc EXCEPT ![r] = "done"]

(* ------------------ what follows getSession in each caller ------------- *)
\* submitForm, steps 2 to 5: the branch taken for the session getSession returned
Branch(b, sessionId, session) ==
  IF ~validateSession(sessionId, session).valid THEN "invalid"
  ELSE IF HONEYPOT_ENABLED /\ checkHoneypotSpam(b, session) THEN "spam"
  ELSE IF ~validateFormData(b, sessionId, session).success THEN "valfail"
  ELSE "legit"

BranchPc_ValfailMarks(c) ==
  IF c = "invalid" THEN "inc_get"
  ELSE IF c = "spam" THEN "save_spam"
  ELSE "mark_get"

\* the first awaited call of each branch: incrementAttempts for the two
\* rejections, saveSpamSubmission for spam, markSessionAsUsed otherwise
BranchPc(c) ==
  IF c \in {"invalid", "valfail"} THEN "inc_get"
  ELSE IF c = "spam" THEN "save_spam"
  ELSE "mark_get"

AfterGetSession(r, session) ==
  /\ sess' = [sess EXCEPT ![r] = session]
  /\ val' = [val EXCEPT ![r] = validateSession(sid[r], session).code]
  /\ isSpam' = [isSpam EXCEPT ![r] =
                  /\ kind[r] = "submit" /\ validateSession(sid[r], session).valid
                  /\ HONEYPOT_ENABLED /\ checkHoneypotSpam(body[r], session)]
  /\ IF kind[r] = "validate"
       THEN /\ out' = [out EXCEPT ![r] = ValidateResponse(sid[r], session)]
            /\ pc' = [pc EXCEPT ![r] = "done"]
            /\ UNCHANGED <<ctx, result>>
     ELSE IF kind[r] = "get"
       THEN /\ out' = [out EXCEPT ![r] = GetResponse(sid[r], session)]
            /\ pc' = [pc EXCEPT ![r] = "done"]
            /\ UNCHANGED <<ctx, result>>
     ELSE \* submitForm, steps 2 to 5
          /\ UNCHANGED <<result, out>>
          /\ ctx' = [ctx EXCEPT ![r] = Branch(body[r], sid[r], session)]
          /\ pc' = [pc EXCEPT ![r] = BranchPc(Branch(body[r], sid[r], session))]

(* ----------------------- SessionService.getSession --------------------- *)
Touched_ResetsAttempts(raw, now) == [raw EXCEPT !.lastAccess = now, !.attempts = 0]

\* the record getSession writes back: the one it read, lastAccess refreshed
Touched(raw, now) == [raw EXCEPT !.lastAccess = now]

\* redis.get(key)
GetSessionRead(r) ==
  /\ pc[r] = "gs_get"
  /\ \E ok \in RedisOutcomes :
       /\ calls' = Called(r, "getSession")
       /\ IF ok /\ Lookup(sid[r]) # Null
         THEN /\ tmp' = [tmp EXCEPT ![r] = Touched(Lookup(sid[r]), Now(r))]
              /\ pc' = [pc EXCEPT ![r] = "gs_set"]
              /\ UNCHANGED <<sess, val, isSpam, ctx, result, out>>
         ELSE /\ AfterGetSession(r, Null)
              /\ UNCHANGED tmp
  /\ UNCHANGED <<storeVars, issued, createLog, db, reqLocals, rlVars, cfgVars>>

\* redis.setex(key, SESSION_CONFIG.TTL, JSON.stringify(session))
GetSessionWrite(r) ==
  /\ pc[r] = "gs_set"
  /\ \E ok \in RedisOutcomes :
       /\ UNCHANGED calls
       /\ IF ok
         THEN /\ store' = [store EXCEPT ![sid[r]] = tmp[r]]
              /\ ttl' = [ttl EXCEPT ![sid[r]] = SESSION_TTL]
              /\ UNCHANGED gone
              /\ AfterGetSession(r, tmp[r])
         ELSE /\ UNCHANGED storeVars
              /\ AfterGetSession(r, Null)
  /\ tmp' = [tmp EXCEPT ![r] = Null]
  /\ UNCHANGED <<issued, createLog, db, reqLocals, rlVars, cfgVars>>


(* -------------------- SessionService.incrementAttempts ----------------- *)
Incremented(raw) == [raw EXCEPT !.attempts = @ + 1]

\* submitForm after incrementAttempts: the two rejections
AfterIncrementAttempts(r) ==
  IF ctx[r] = "invalid"
    THEN Return(r, [success |-> FALSE, message |-> val[r], submissionId |-> 0,
                    errors |-> {[field |-> <<"_sessionId">>, message |-> val[r]]},
                    isSpam |-> FALSE])
    ELSE Return(r, [success |-> FALSE, message |-> "VALIDATION_ERROR", submissionId |-> 0,
                    errors |-> validateFormData(body[r], sid[r], sess[r]).errors,
                    isSpam |-> FALSE])

\* redis.get(key)
IncrementAttemptsRead(r) ==
  /\ pc[r] = "inc_get"
  /\ \E ok \in RedisOutcomes :
       /\ calls' = Called(r, "incrementAttempts")
       /\ IF ok /\ Lookup(sid[r]) # Null
         THEN /\ tmp' = [tmp EXCEPT ![r] = Incremented(Lookup(sid[r]))]
              /\ pc' = [pc EXCEPT ![r] = "inc_set"]
              /\ UNCHANGED <<result, out>>
         ELSE /\ AfterIncrementAttempts(r)
              /\ UNCHANGED tmp
  /\ UNCHANGED <<storeVars, issued, createLog, db, sess, val, isSpam, ctx>>
  /\ UNCHANGED <<reqLocals, rlVars, cfgVars>>

\* redis.setex(key, SESSION_CONFIG.TTL, JSON.stringify(session))
IncrementAttemptsWrite(r) ==
  /\ pc[r] = "inc_set"
  /\ \E ok \in RedisOutcomes :
       /\ UNCHANGED calls
       /\ IF ok
         THEN /\ store' = [store EXCEPT ![sid[r]] = tmp[r]]
              /\ ttl' = [ttl EXCEPT ![sid[r]] = SESSION_TTL]
              /\ UNCHANGED gone
         ELSE UNCHANGED storeVars
  /\ AfterIncrementAttempts(r)
  /\ tmp' = [tmp EXCEPT ![r] = Null]
  /\ UNCHANGED <<issued, createLog, db, sess, val, isSpam, ctx>>
  /\ UNCHANGED <<reqLocals, rlVars, cfgVars>>

(* -------------------- SessionService.markSessionAsUsed ----------------- *)
MarkedUsed_NoIp(raw, now, clientIp, userAgent) ==
  [raw EXCEPT !.used = TRUE, !.usedAt = now, !.userAgent = userAgent]

\* markSessionAsUsed: used, usedAt, ip and userAgent are assigned together
MarkedUsed(raw, now, clientIp, userAgent) ==
  [raw EXCEPT !.used = TRUE, !.usedAt = now, !.ip = clientIp, !.userAgent = userAgent]

AfterMarkSessionAsUsed_AlwaysSaves(r) ==
  /\ pc' = [pc EXCEPT ![r] = "save_form"]
  /\ UNCHANGED <<result, out>>

\* submitForm after markSessionAsUsed: the spam branch returns the false success,
\* the legitimate branch goes on to save the form
AfterMarkSessionAsUsed(r) ==
  IF ctx[r] = "spam"
    THEN Return(r, [success |-> TRUE, message |-> "SENT", submissionId |-> r,
                    errors |-> {}, isSpam |-> TRUE])
    ELSE /\ pc' = [pc EXCEPT ![r] = "save_form"]
         /\ UNCHANGED <<result, out>>

\* redis.get(key)
MarkSessionAsUsedRead(r) ==
  /\ pc[r] = "mark_get"
  /\ \E ok \in RedisOutcomes :
       /\ calls' = Called(r, "markSessionAsUsed")
       /\ IF ok /\ Lookup(sid[r]) # Null
         THEN /\ tmp' = [tmp EXCEPT ![r] =
                           MarkedUsed(Lookup(sid[r]), Now(r), ip[r], UserAgent)]
              /\ pc' = [pc EXCEPT ![r] = "mark_set"]
              /\ UNCHANGED <<result, out>>
         ELSE /\ AfterMarkSessionAsUsed(r)
              /\ UNCHANGED tmp
  /\ UNCHANGED <<storeVars, issued, createLog, db, sess, val, isSpam, ctx>>
  /\ UNCHANGED <<reqLocals, rlVars, cfgVars>>

MarkSessionAsUsedWrite_NoExpiry(r) ==
  /\ pc[r] = "mark_set"
  /\ \E ok \in RedisOutcomes :
       /\ UNCHANGED calls
       /\ IF ok
         THEN /\ store' = [store EXCEPT ![sid[r]] = tmp[r]]
              /\ ttl' = [ttl EXCEPT ![sid[r]] = NoTtl]
              /\ UNCHANGED gone
         ELSE UNCHANGED storeVars
  /\ AfterMarkSessionAsUsed(r)
  /\ tmp' = [tmp EXCEPT ![r] = Null]
  /\ UNCHANGED <<issued, createLog, db, sess, val, isSpam, ctx>>
  /\ UNCHANGED <<reqLocals, rlVars, cfgVars>>

\* redis.setex(key, 300, JSON.stringify(session))
MarkSessionAsUsedWrite(r) ==
  /\ pc[r] = "mark_set"
  /\ \E ok \in RedisOutcomes :
       /\ UNCHANGED calls
       /\ IF ok
         THEN /\ store' = [store EXCEPT ![sid[r]] = tmp[r]]
              /\ ttl' = [ttl EXCEPT ![sid[r]] = USED_TTL]
              /\ UNCHANGED gone
         ELSE UNCHANGED storeVars
  /\ AfterMarkSessionAsUsed(r)
  /\ tmp' = [tmp EXCEPT ![r] = Null]
  /\ UNCHANGED <<issued, createLog, db, sess, val, isSpam, ctx>>
  /\ UNCHANGED <<reqLocals, rlVars, cfgVars>>

(* ----------------------------- DatabaseService ------------------------- *)
\* the row saveFormSubmission inserts; its id is that of the inserting request
Row(r, spam, status) ==
  [id |-> r, sessionId |-> sid[r], ip_address |-> ip[r],
   is_spam |-> spam, status |-> status]

\* submitForm, spam branch: databaseService.saveSpamSubmission, not guarded by try
SaveSpamSubmission(r) ==
  /\ pc[r] = "save_spam"
  /\ \E ok \in DbOutcomes :
       IF ok
         THEN /\ db' = db \cup {Row(r, TRUE, "blocked")}
              /\ pc' = [pc EXCEPT ![r] = "mark_get"]
              /\ UNCHANGED <<result, out>>
         ELSE /\ UNCHANGED db
              /\ Return(r, Threw)
  /\ UNCHANGED <<storeVars, issued, createLog, sess, tmp, val, isSpam, ctx>>
  /\ calls' = Called(r, "saveSpamSubmission")
  /\ UNCHANGED <<reqLocals, rlVars, cfgVars>>

SaveFormSubmission_Throws(r) ==
  /\ pc[r] = "save_form"
  /\ \E ok \in DbOutcomes :
       IF ok
         THEN /\ db' = db \cup {Row(r, FALSE, "pending")}
              /\ Return(r, [success |-> TRUE, message |-> "SENT_AND_SAVED",
                            submissionId |-> r, errors |-> {}, isSpam |-> FALSE])
         ELSE /\ UNCHANGED db
              /\ Return(r, Threw)
  /\ UNCHANGED <<storeVars, issued, createLog, sess, tmp, val, isSpam, ctx>>
  /\ calls' = Called(r, "saveFormSubmission")
  /\ UNCHANGED <<reqLocals, rlVars, cfgVars>>

\* submitForm, step 6: databaseService.saveFormSubmission inside try / catch
SaveFormSubmission(r) ==
  /\ pc[r] = "save_form"
  /\ \E ok \in DbOutcomes :
       IF ok
         THEN /\ db' = db \cup {Row(r, FALSE, "pending")}
              /\ Return(r, [success |-> TRUE, message |-> "SENT_AND_SAVED",
                            submissionId |-> r, errors |-> {}, isSpam |-> FALSE])
         ELSE /\ UNCHANGED db
              /\ Return(r, [success |-> FALSE, message |-> "SAVE_ERROR",
                            submissionId |-> 0, errors |-> {}, isSpam |-> FALSE])
  /\ UNCHANGED <<storeVars, issued, createLog, sess, tmp, val, isSpam, ctx>>
  /\ calls' = Called(r, "saveFormSubmission")
  /\ UNCHANGED <<reqLocals, rlVars, cfgVars>>

(* --------------------- deletion and expiry of a key -------------------- *)
deleteSession_Throws(ok) == [threw |-> ~ok]

\* deleteSession catches the error of redis.del and returns
deleteSession(ok) == [threw |-> FALSE]

\* SessionController.delete: the reply for what deleteSession returned or threw
DeleteResponse(res) ==
  IF res.threw
    THEN [status |-> 500, success |-> FALSE]
    ELSE [status |-> 200, success |-> TRUE]


DeleteSession_OnlyLive(r) ==
  /\ pc[r] = "del"
  /\ \E ok \in RedisOutcomes :
       /\ IF ok
            THEN /\ store' = [store EXCEPT ![sid[r]] = Null]
                 /\ ttl' = [ttl EXCEPT ![sid[r]] = 0]
                 /\ gone' = [gone EXCEPT ![sid[r]] = @ \/ store[sid[r]] # Null]
            ELSE UNCHANGED storeVars
       /\ out' = [out EXCEPT ![r] = DeleteResponse([threw |-> store[sid[r]] = Null])]
  /\ pc' = [pc EXCEPT ![r] = "done"]
  /\ UNCHANGED <<issued, createLog, calls, db, sess, tmp, val, isSpam, ctx, result>>
  /\ UNCHANGED <<reqLocals, rlVars, cfgVars>>

\* SessionController.delete -> SessionService.deleteSession: redis.del(key)
DeleteSession(r) ==
  /\ pc[r] = "del"
  /\ \E ok \in RedisOutcomes :
       /\ IF ok
            THEN /\ store' = [store EXCEPT ![sid[r]] = Null]
                 /\ ttl' = [ttl EXCEPT ![sid[r]] = 0]
                 /\ gone' = [gone EXCEPT ![sid[r]] = @ \/ store[sid[r]] # Null]
            ELSE UNCHANGED storeVars
       /\ out' = [out EXCEPT ![r] = DeleteResponse(deleteSession(ok))]
  /\ pc' = [pc EXCEPT ![r] = "done"]
  /\ UNCHANGED <<issued, createLog, calls, db, sess, tmp, val, isSpam, ctx, result>>
  /\ UNCHANGED <<reqLocals, rlVars, cfgVars>>

\* Redis drops session:<id> when its TTL has run out
ExpireSession ==
  /\ \E s \in SessionIds :
       /\ store[s] # Null /\ ttl[s] > 0
       /\ store' = [store EXCEPT ![s] = Null]
       /\ ttl' = [ttl EXCEPT ![s] = 0]
       /\ gone' = [gone EXCEPT ![s] = TRUE]
  /\ UNCHANGED <<issued, createLog, calls, db, pc, sess, tmp, val, isSpam, ctx, result, out>>
  /\ UNCHANGED <<reqLocals, rlVars, cfgVars>>

(* ------------------------- session specification ----------------------- *)
\* the session engine with a reliable Redis and PostgreSQL
Init ==
  /\ InitCommon
  /\ HONEYPOT_ENABLED = TRUE
  /\ RATE_LIMIT_ENABLED = TRUE
  /\ idPool = OneId
  /\ redisFails = FALSE
  /\ dbFails = FALSE

SessionStep(r) ==
  \/ GetSessionRead(r)
  \/ GetSessionWrite(r)
  \/ IncrementAttemptsRead(r)
  \/ IncrementAttemptsWrite(r)
  \/ MarkSessionAsUsedRead(r)
  \/ MarkSessionAsUsedWrite(r)
  \/ SaveSpamSubmission(r)
  \/ SaveFormSubmission(r)

Next ==
  \/ CreateSession
  \/ \E r \in Reqs : DeleteSession(r)
  \/ ExpireSession
  \/ \E r \in Reqs : StartSubmit(r)
  \/ \E r \in Reqs : StartIntrospect(r)
  \/ \E r \in Reqs : SessionStep(r)

Spec == Init /\ [][Next]_vars


InitFault ==
  /\ InitCommon
  /\ HONEYPOT_ENABLED = TRUE
  /\ RATE_LIMIT_ENABLED = TRUE
  /\ idPool = OneId
  /\ redisFails = TRUE
  /\ dbFails = TRUE

\* the session engine with Redis calls and PostgreSQL queries that may reject
SpecFault == InitFault /\ [][Next]_vars

(* ------------------------- RateLimitMiddleware ------------------------- *)
FirstRequest_AnyWithoutTtl(requestCount, keyTtl) == keyTtl = NoTtl

\* if (requestCount === 1 && ttl === -1)
FirstRequest(requestCount, keyTtl) == requestCount = 1 /\ keyTtl = NoTtl

OverLimit_OneMore(requestCount) == requestCount > MAX_REQUESTS + 1

OverLimit_AtLimit(requestCount) == requestCount >= MAX_REQUESTS

\* if (requestCount > this.options.maxRequests)
OverLimit(requestCount) == requestCount > MAX_REQUESTS

Rethrown_Every(message) == TRUE

\* catch (error): only RATE_LIMIT_EXCEEDED is thrown on
Rethrown(message) == message = "RATE_LIMIT_EXCEEDED"

\* the 429 reply of the middleware
TooManyRequests(keyTtl) ==
  [status |-> 429, success |-> FALSE, message |-> "RATE_LIMIT_EXCEEDED",
   limit |-> MAX_REQUESTS, remaining |-> 0, resetIn |-> keyTtl]

\* register(): the onRequest hook of POST /api/submit calls middleware()
ArriveSubmit(r) ==
  /\ MayStart(r)
  /\ \E i \in Ips : ip' = [ip EXCEPT ![r] = i]
  /\ kind' = [kind EXCEPT ![r] = "submit"]
  /\ pc' = [pc EXCEPT ![r] =
              IF ~HONEYPOT_ENABLED \/ ~RATE_LIMIT_ENABLED THEN "handler" ELSE "rl_exec"]
  /\ UNCHANGED <<storeVars, issued, createLog, calls, db, sid, body, afterAccepted>>
  /\ UNCHANGED <<sess, tmp, val, isSpam, ctx, result, out, rlVars, cfgVars>>

CheckLimit_ReplyOnly(r, requestCount, keyTtl) ==
  IF OverLimit(requestCount)
    THEN /\ out' = [out EXCEPT ![r] = TooManyRequests(keyTtl)]
         /\ pc' = [pc EXCEPT ![r] = "handler"]
    ELSE /\ pc' = [pc EXCEPT ![r] = "handler"]
         /\ UNCHANGED out

\* the limit check and what follows it: the 429 reply and the throw, or the headers
CheckLimit(r, requestCount, keyTtl) ==
  IF OverLimit(requestCount)
    THEN /\ out' = [out EXCEPT ![r] = TooManyRequests(keyTtl)]
         /\ pc' = [pc EXCEPT ![r] = "denied"]
    ELSE /\ pc' = [pc EXCEPT ![r] = "handler"]
         /\ UNCHANGED out

\* the catch block of middleware() for an error of a Redis call
Caught(r, call, message) ==
  /\ rlError' = [rlError EXCEPT ![r] = call]
  /\ pc' = [pc EXCEPT ![r] = IF Rethrown(message) THEN "threw" ELSE "handler"]
  /\ UNCHANGED out

RateLimitExec_CapsCounter(r) ==
  /\ pc[r] = "rl_exec"
  /\ \E ok \in RedisOutcomes :
       IF ok
         THEN LET requestCount == rlCount[ip[r]] + 1
                  keyTtl == IF rlCount[ip[r]] = 0 THEN NoTtl ELSE rlTtl[ip[r]]
              IN  /\ rlCount' = [rlCount EXCEPT ![ip[r]] = Min(requestCount, MAX_REQUESTS)]
                  /\ rlTtl' = [rlTtl EXCEPT ![ip[r]] = keyTtl]
                  /\ obs' = [obs EXCEPT ![r] = [count |-> requestCount, ttl |-> keyTtl,
                                                window |-> rlWindow[ip[r]]]]
                  /\ UNCHANGED rlError
                  /\ IF FirstRequest(requestCount, keyTtl)
                       THEN /\ pc' = [pc EXCEPT ![r] = "rl_expire"]
                            /\ UNCHANGED out
                       ELSE CheckLimit(r, requestCount, keyTtl)
         ELSE /\ \E call \in {"multi", "exec"} : Caught(r, call, "REDIS_ERROR")
              /\ UNCHANGED <<rlCount, rlTtl, obs>>
  /\ UNCHANGED <<storeVars, issued, createLog, calls, db, rlWindow, reqLocals, cfgVars>>
  /\ UNCHANGED <<sess, tmp, val, isSpam, ctx, result>>

\* multi.incr(key); multi.ttl(key); await multi.exec(): one transaction
RateLimitExec(r) ==
  /\ pc[r] = "rl_exec"
  /\ \E ok \in RedisOutcomes :
       IF ok
         THEN LET requestCount == rlCount[ip[r]] + 1
                  keyTtl == IF rlCount[ip[r]] = 0 THEN NoTtl ELSE rlTtl[ip[r]]
              IN  /\ rlCount' = [rlCount EXCEPT ![ip[r]] = requestCount]
                  /\ rlTtl' = [rlTtl EXCEPT ![ip[r]] = keyTtl]
                  /\ obs' = [obs EXCEPT ![r] = [count |-> requestCount, ttl |-> keyTtl,
                                                window |-> rlWindow[ip[r]]]]
                  /\ UNCHANGED rlError
                  /\ IF FirstRequest(requestCount, keyTtl)
                       THEN /\ pc' = [pc EXCEPT ![r] = "rl_expire"]
                            /\ UNCHANGED out
                       ELSE CheckLimit(r, requestCount, keyTtl)
         ELSE /\ \E call \in {"multi", "exec"} : Caught(r, call, "REDIS_ERROR")
              /\ UNCHANGED <<rlCount, rlTtl, obs>>
  /\ UNCHANGED <<storeVars, issued, createLog, calls, db, rlWindow, reqLocals, cfgVars>>
  /\ UNCHANGED <<sess, tmp, val, isSpam, ctx, result>>

\* await this.redis.expire(key, this.options.windowMs / 1000)
RateLimitExpire(r) ==
  /\ pc[r] = "rl_expire"
  /\ \E ok \in RedisOutcomes :
       IF ok
         THEN /\ rlTtl' = [rlTtl EXCEPT ![ip[r]] =
                             IF rlCount[ip[r]] = 0 THEN NoKey ELSE WINDOW_MS \div 1000]
              /\ CheckLimit(r, obs[r].count, obs[r].ttl)
              /\ UNCHANGED rlError
         ELSE /\ Caught(r, "expire", "REDIS_ERROR")
              /\ UNCHANGED rlTtl
  /\ UNCHANGED <<storeVars, issued, createLog, calls, db, rlCount, rlWindow, obs>>
  /\ UNCHANGED <<sess, tmp, val, isSpam, ctx, result, reqLocals, cfgVars>>

\* the server process stops between multi.exec() and redis.expire()
RateLimitCrash(r) ==
  /\ pc[r] = "rl_expire"
  /\ pc' = [pc EXCEPT ![r] = "crashed"]
  /\ UNCHANGED <<storeVars, issued, createLog, calls, db, rlVars, reqLocals, cfgVars>>
  /\ UNCHANGED <<sess, tmp, val, isSpam, ctx, result, out>>

\* Redis drops rate_limit:<ip> when its TTL has run out
RateLimitKeyExpire ==
  /\ \E i \in Ips :
       /\ rlCount[i] > 0 /\ rlTtl[i] > 0
       /\ rlCount' = [rlCount EXCEPT ![i] = 0]
       /\ rlTtl' = [rlTtl EXCEPT ![i] = NoKey]
       /\ rlWindow' = [rlWindow EXCEPT ![i] = @ + 1]
  /\ UNCHANGED <<storeVars, issued, createLog, calls, db, obs, rlError, pc>>
  /\ UNCHANGED <<sess, tmp, val, isSpam, ctx, result, out, reqLocals, cfgVars>>

InitRL ==
  /\ InitCommon
  /\ HONEYPOT_ENABLED \in BOOLEAN
  /\ RATE_LIMIT_ENABLED \in BOOLEAN
  /\ idPool = OneId
  /\ redisFails \in BOOLEAN
  /\ dbFails = FALSE

NextRL ==
  \/ \E r \in Reqs : ArriveSubmit(r)
  \/ \E r \in Reqs : RateLimitExec(r)
  \/ \E r \in Reqs : RateLimitExpire(r)
  \/ \E r \in Reqs : RateLimitCrash(r)
  \/ RateLimitKeyExpire

\* the rate limiter in front of POST /api/submit
SpecRL == InitRL /\ [][NextRL]_vars


(* ------------------- several sessions side by side -------------------- *)
InitIds ==
  /\ InitCommon
  /\ HONEYPOT_ENABLED = TRUE
  /\ RATE_LIMIT_ENABLED = TRUE
  /\ idPool = SessionIds
  /\ redisFails = FALSE
  /\ dbFails = FALSE

NextIds ==
  \/ CreateSession
  \/ ExpireSession
  \/ \E r \in Reqs : StartIntrospect(r)
  \/ \E r \in Reqs : GetSessionRead(r)
  \/ \E r \in Reqs : GetSessionWrite(r)
  \/ \E r \in Reqs : DeleteSession(r)

\* the session endpoints (create, validate, get, delete) with every id in play
SpecIds == InitIds /\ [][NextIds]_vars

(* ------------- submissions with the honeypot check on or off ----------- *)
InitSubmit ==
  /\ InitCommon
  /\ HONEYPOT_ENABLED \in BOOLEAN
  /\ RATE_LIMIT_ENABLED = TRUE
  /\ idPool = OneId
  /\ redisFails = FALSE
  /\ dbFails = FALSE

NextSubmit ==
  \/ CreateSession
  \/ \E r \in Reqs : StartSubmit(r)
  \/ \E r \in Reqs : SessionStep(r)

\* the session engine with the expiry Redis guarantees: a key that keeps its
\* TTL is dropped in the end
SpecExpiry == Init /\ [][Next]_vars /\ WF_vars(ExpireSession)

\* FormService.submitForm under either setting of SECURITY_CONFIG.HONEYPOT_ENABLED
SpecSubmit == InitSubmit /\ [][NextSubmit]_vars

(* ------------------ the limiter in front of the handler ---------------- *)
\* the onRequest hook returned without throwing: FormController.submit runs
HandleSubmit(r) ==
  /\ pc[r] = "handler"
  /\ \E s \in idPool \cup {EmptyId} : \E b \in Bodies(s) : EnterSubmit(r, s, b, ip[r])
  /\ UNCHANGED <<storeVars, issued, createLog, calls, db, sess, tmp, val, isSpam, ctx, result, out>>
  /\ UNCHANGED <<rlVars, cfgVars>>

InitGate ==
  /\ InitCommon
  /\ HONEYPOT_ENABLED = TRUE
  /\ RATE_LIMIT_ENABLED = TRUE
  /\ idPool = OneId
  /\ redisFails = FALSE
  /\ dbFails = FALSE

NextGate ==
  \/ CreateSession
  \/ ExpireSession
  \/ \E r \in Reqs : ArriveSubmit(r)
  \/ \E r \in Reqs : RateLimitExec(r)
  \/ \E r \in Reqs : RateLimitExpire(r)
  \/ \E r \in Reqs : HandleSubmit(r)
  \/ \E r \in Reqs : SessionStep(r)

\* POST /api/submit behind its onRequest hook, within one window of the limiter
SpecGate == InitGate /\ [][NextGate]_vars

(* --------------------- the pure functions on their own ----------------- *)
\* session records a caller can hold: any id, used or not, any attempts count
PureSessions ==
  {Null} \cup
  {[NewSessionData(s, CreateStamp) EXCEPT !.used = u, !.attempts = a] :
     s \in SessionIds, u \in BOOLEAN, a \in 0..(MAX_ATTEMPTS + 1)}

F_oldDecoy == <<HP_PREFIX, "o", "l", "d">>

\* field maps: the current decoy, a decoy of an older session and the e-mail,
\* each absent or with one of the values
PureBodies(s) ==
  {b \in UNION {[D -> {"", " ", "x", "bad"}] :
                  D \in SUBSET {generateHoneypotFieldName(s), F_oldDecoy, F_email}} :
     /\ \A n \in DOMAIN b : n # F_email => b[n] # "bad"
     /\ F_email \in DOMAIN b => b[F_email] \in {"x", "bad"}}

InitPure ==
  /\ store = [s \in SessionIds |-> Null]
  /\ ttl = [s \in SessionIds |-> 0]
  /\ gone = [s \in SessionIds |-> FALSE]
  /\ issued = {}
  /\ createLog = {}
  /\ calls = [r \in Reqs |-> NoCalls]
  /\ db = {}
  /\ rlCount = [i \in Ips |-> 0]
  /\ rlTtl = [i \in Ips |-> NoKey]
  /\ rlWindow = [i \in Ips |-> 0]
  /\ pc = [r \in Reqs |-> IF r = 1 THEN "pure" ELSE "idle"]
  /\ kind = [r \in Reqs |-> "none"]
  /\ \E s \in SessionIds \cup {EmptyId} : \E b \in PureBodies(s) :
       /\ sid = [r \in Reqs |-> IF r = 1 THEN s ELSE EmptyId]
       /\ body = [r \in Reqs |-> IF r = 1 THEN b ELSE << >>]
  /\ ip = [r \in Reqs |-> 1]
  /\ \E session \in PureSessions : sess = [r \in Reqs |-> IF r = 1 THEN session ELSE Null]
  /\ tmp = [r \in Reqs |-> Null]
  /\ val = [r \in Reqs |-> "NONE"]
  /\ isSpam = [r \in Reqs |-> FALSE]
  /\ ctx = [r \in Reqs |-> "none"]
  /\ result = [r \in Reqs |-> NoResult]
  /\ out = [r \in Reqs |-> NoResult]
  /\ obs = [r \in Reqs |-> NoObs]
  /\ rlError = [r \in Reqs |-> "none"]
  /\ afterAccepted = [r \in Reqs |-> FALSE]
  /\ HONEYPOT_ENABLED = TRUE
  /\ RATE_LIMIT_ENABLED = TRUE
  /\ idPool = OneId
  /\ redisFails = FALSE
  /\ dbFails = FALSE

\* sessionService.validateSession(sessionId, session)
PureValidateSession ==
  /\ pc[1] = "pure"
  /\ val' = [val EXCEPT ![1] = validateSession(sid[1], sess[1]).code]
  /\ pc' = [pc EXCEPT ![1] = "validated"]
  /\ UNCHANGED <<storeVars, issued, createLog, calls, db, rlVars, reqLocals, cfgVars>>
  /\ UNCHANGED <<sess, tmp, isSpam, ctx, result, out>>

\* sessionService.checkHoneypotSpam(body, session)
PureCheckHoneypotSpam ==
  /\ pc[1] = "pure" /\ sess[1] # Null
  /\ isSpam' = [isSpam EXCEPT ![1] = checkHoneypotSpam(body[1], sess[1])]
  /\ pc' = [pc EXCEPT ![1] = "checked"]
  /\ UNCHANGED <<storeVars, issued, createLog, calls, db, rlVars, reqLocals, cfgVars>>
  /\ UNCHANGED <<sess, tmp, val, ctx, result, out>>

(* --------------------- validation/form.validator.ts -------------------- *)
\* validateHoneypot(data, honeypotField): the other fields starting with _hp_
\* are looked at only when the named field holds something
validateHoneypot(data, honeypotField) ==
  LET value == Field(data, honeypotField)
      filledHoneypots == {n \in DOMAIN data :
                            StartsWithHp(n) /\ Truthy(data[n]) /\ Trim(data[n]) # ""}
  IN  IF value = Absent
        THEN [isValid |-> TRUE, fields |-> {}]
        ELSE IF Trim(value) = ""
               THEN [isValid |-> TRUE, fields |-> {}]
               ELSE IF filledHoneypots # {}
                      THEN [isValid |-> FALSE, fields |-> filledHoneypots]
                      ELSE [isValid |-> TRUE, fields |-> {}]

\* FormValidators.validateHoneypot(body, session.honeypotField)
PureValidateHoneypot ==
  /\ pc[1] = "pure" /\ sess[1] # Null
  /\ result' = [result EXCEPT ![1] = validateHoneypot(body[1], sess[1].honeypotField)]
  /\ pc' = [pc EXCEPT ![1] = "honeypot"]
  /\ UNCHANGED <<storeVars, issued, createLog, calls, db, rlVars, reqLocals, cfgVars>>
  /\ UNCHANGED <<sess, tmp, val, isSpam, ctx, out>>

NextPure == PureValidateSession \/ PureCheckHoneypotSpam \/ PureValidateHoneypot

SpecPure == InitPure /\ [][NextPure]_vars

(* ------------------- index.ts: the standalone server ------------------- *)
\* CONFIG.HONEYPOT_FIELD
HONEYPOT_FIELD == <<"_honeypot">>

\* formSchema.safeParse(request.body): the fields with an issue. formId is a
\* string of 1..100 characters, email an e-mail address, message an optional
\* string, and the honeypot an optional string of at most 0 characters
formSchema(data) ==
  {n \in {F_formId} : Field(data, n) \in {Absent, "", "long"}}
    \cup {n \in {F_email} : Field(data, n) # "x"}
    \cup {n \in {F_message} : Field(data, n) = "long"}
    \cup {n \in {HONEYPOT_FIELD} : Field(data, n) \notin {Absent, ""}}

\* the bodies a client posts to the standalone server
StandaloneBodies ==
  {((F_formId :> f) @@ (F_email :> e)) @@
     (IF h = Absent THEN << >> ELSE (HONEYPOT_FIELD :> h)) :
       f \in {"x", ""}, e \in {"x", "bad"}, h \in {Absent, "", " ", "x"}}

\* the row the standalone handler inserts into form_submissions
StandaloneRow(r, spam, status) ==
  [id |-> r, ip_address |-> ip[r], is_spam |-> spam, status |-> status]

\* fastify.post('/api/submit'): safeParse, the 400 reply, the honeypot test
StandaloneSubmit(r) ==
  /\ MayStart(r)
  /\ \E b \in StandaloneBodies : \E i \in Ips :
       /\ kind' = [kind EXCEPT ![r] = "standalone"]
       /\ body' = [body EXCEPT ![r] = b]
       /\ ip' = [ip EXCEPT ![r] = i]
       /\ IF formSchema(b) # {}
            THEN /\ out' = [out EXCEPT ![r] =
                              [status |-> 400, success |-> FALSE,
                               message |-> "VALIDATION_FAILED", submissionId |-> 0,
                               errors |-> formSchema(b)]]
                 /\ pc' = [pc EXCEPT ![r] = "done"]
                 /\ UNCHANGED isSpam
            ELSE /\ isSpam' = [isSpam EXCEPT ![r] =
                                 Truthy(Field(b, HONEYPOT_FIELD))
                                   /\ Field(b, HONEYPOT_FIELD) # ""]
                 /\ pc' = [pc EXCEPT ![r] = "insert"]
                 /\ UNCHANGED out
  /\ UNCHANGED <<storeVars, issued, createLog, calls, db, sid, afterAccepted>>
  /\ UNCHANGED <<sess, tmp, val, ctx, result, rlVars, cfgVars>>

\* await pool.query(INSERT ...): the blocked row and the concealing success, or
\* the pending row and the success with its id; an error is answered 500
StandaloneInsert(r) ==
  /\ pc[r] = "insert"
  /\ \E ok \in DbOutcomes :
       IF ok
         THEN IF isSpam[r]
                THEN /\ db' = db \cup {StandaloneRow(r, TRUE, "blocked")}
                     /\ out' = [out EXCEPT ![r] =
                                  [status |-> 200, success |-> TRUE,
                                   message |-> "RECEIVED", submissionId |-> 0,
                                   errors |-> {}]]
                ELSE /\ db' = db \cup {StandaloneRow(r, FALSE, "pending")}
                     /\ out' = [out EXCEPT ![r] =
                                  [status |-> 200, success |-> TRUE,
                                   message |-> "RECEIVED_AND_SAVED", submissionId |-> r,
                                   errors |-> {}]]
         ELSE /\ UNCHANGED db
              /\ out' = [out EXCEPT ![r] =
                           [status |-> 500, success |-> FALSE,
                            message |-> "INTERNAL_SERVER_ERROR", submissionId |-> 0,
                            errors |-> {}]]
  /\ pc' = [pc EXCEPT ![r] = "done"]
  /\ UNCHANGED <<storeVars, issued, createLog, calls, reqLocals>>
  /\ UNCHANGED <<sess, tmp, val, isSpam, ctx, result, rlVars, cfgVars>>

InitStandalone ==
  /\ InitCommon
  /\ HONEYPOT_ENABLED = TRUE
  /\ RATE_LIMIT_ENABLED = TRUE
  /\ idPool = OneId
  /\ redisFails = FALSE
  /\ dbFails \in BOOLEAN

NextStandalone ==
  \/ \E r \in Reqs : StandaloneSubmit(r)
  \/ \E r \in Reqs : StandaloneInsert(r)

\* POST /api/submit of the standalone server
SpecStandalone == InitStandalone /\ [][NextStandalone]_vars


(* ============================== claims ================================= *)
Submits == {r \in Reqs : kind[r] = "submit"}

\* C1: of the submitForm calls that carry one session id at most one returns an
\* accepted result (success = true), and at most one row for that session
\* reaches form_submissions, however the calls interleave.
C1_AtMostOneAccepted ==
  \A s \in SessionIds :
    /\ Cardinality({r \in Submits : sid[r] = s /\ Accepted(r)}) <= 1
    /\ Cardinality({row \in db : row.sessionId = s}) <= 1

\* C2: a submitForm call that starts after an accepted submission of its
\* session has returned, and finds the record alive (it has neither expired nor
\* been deleted), is rejected as SESSION_USED.
C2_ReplayRejected ==
  \A r \in Submits :
    (pc[r] = "done" /\ afterAccepted[r] /\ sess[r] # Null /\ ~gone[sid[r]])
      => (val[r] = "SESSION_USED" /\ result[r] # Threw /\ ~result[r].success)

\* C3: the stored used flag of a session record never goes from true back to
\* false while the record exists.
C3_UsedNeverReverts ==
  [][\A s \in SessionIds :
       (store[s] # Null /\ store[s].used /\ store'[s] # Null) => store'[s].used]_vars

\* C4: the stored attempts counter of a session record never decreases while the
\* record exists.
C4_AttemptsNeverDecrease ==
  [][\A s \in SessionIds :
       (store[s] # Null /\ store'[s] # Null)
         => store'[s].attempts >= store[s].attempts]_vars

\* the requests the limiter counted for address i in its w-th window
Counted(i, w) == {r \in Reqs : obs[r] # NoObs /\ ip[r] = i /\ obs[r].window = w}
Windows == 0..NReq

\* C5: within one window of one client address every counted request observes
\* a distinct counter value, and at most maxRequests of them are allowed.
C5_DistinctCountsAtMostMaxAllowed ==
  \A i \in Ips : \A w \in Windows :
    /\ \A r1, r2 \in Counted(i, w) : r1 # r2 => obs[r1].count # obs[r2].count
    /\ Cardinality({r \in Counted(i, w) : pc[r] = "handler"}) <= MAX_REQUESTS

\* a request was denied while the request that opened the window had not yet
\* armed the TTL: the requests of the window overlapped
C5_Witness ==
  \E r1, r2 \in Reqs :
    /\ pc[r1] = "rl_expire" /\ pc[r2] = "denied"
    /\ ip[r1] = ip[r2] /\ obs[r1].window = obs[r2].window
    /\ Cardinality(Counted(ip[r1], obs[r1].window)) = MAX_REQUESTS + 1

\* C6: the Nth counted request of a window observes N; it is allowed when
\* N <= maxRequests and answered 429 RATE_LIMIT_EXCEEDED when N > maxRequests.
C6_NthAllowedNextDenied ==
  \A r \in Reqs :
    obs[r] # NoObs =>
      /\ obs[r].count \in 1..Cardinality(Counted(ip[r], obs[r].window))
      /\ (pc[r] \in {"handler", "denied", "threw"} /\ rlError[r] = "none") =>
           /\ obs[r].count <= MAX_REQUESTS => (pc[r] = "handler" /\ out[r] = NoResult)
           /\ obs[r].count > MAX_REQUESTS =>
                /\ pc[r] = "denied"
                /\ out[r] # NoResult
                /\ out[r].status = 429 /\ out[r].message = "RATE_LIMIT_EXCEEDED"

\* with Redis available the requests 1..maxRequests were allowed and request
\* maxRequests + 1 of the same window was denied
C6_Witness ==
  /\ ~redisFails
  /\ \E i \in Ips : \E w \in Windows :
       /\ \A n \in 1..MAX_REQUESTS :
            \E r \in Counted(i, w) : obs[r].count = n /\ pc[r] = "handler"
       /\ \E r \in Counted(i, w) : obs[r].count = MAX_REQUESTS + 1 /\ pc[r] = "denied"

\* C7: a rate_limit key without a TTL always has the request that created it
\* still on its way to arm one, so every key gets its TTL.
C7_EveryKeyGetsTtl ==
  \A i \in Ips :
    (rlCount[i] > 0 /\ rlTtl[i] = NoTtl)
      => \E r \in Reqs : /\ pc[r] = "rl_expire" /\ ip[r] = i
                         /\ obs[r].window = rlWindow[i]

\* C8: a request whose multi, exec or expire call failed is allowed: no 429 is
\* sent, nothing is thrown and the submission handler runs.
C8_FailOpen ==
  \A r \in Reqs : rlError[r] # "none" => (pc[r] = "handler" /\ out[r] = NoResult)

\* one request lost its exec, another its expire
C8_Witness ==
  \E r1, r2 \in Reqs :
    /\ rlError[r1] \in {"multi", "exec"} /\ rlError[r2] = "expire"
    /\ pc[r1] = "handler" /\ pc[r2] = "handler"

\* C9: when the setex of createSession fails, the endpoint answers 500 with
\* success = false and no session data; a session id is only ever handed out
\* for a record that was stored.
C9_NoFallbackToken ==
  \A c \in createLog :
    /\ ~c.stored => /\ c.response.status = 500 /\ ~c.response.success
                    /\ c.response.data = Null
    /\ c.response.data # Null => c.stored

C9_Witness ==
  \E c \in createLog : ~c.stored /\ c.response.status = 500

\* C10: validateSession answers with the first reason that applies, in the
\* order SESSION_REQUIRED, SESSION_INVALID, SESSION_USED, MAX_ATTEMPTS, and is
\* valid only when none applies.
C10_ValidatePrecedence ==
  pc[1] = "validated" =>
    LET required == sid[1] = EmptyId
        invalid == sess[1] = Null
    IN  /\ required => val[1] = "SESSION_REQUIRED"
        /\ (~required /\ invalid) => val[1] = "SESSION_INVALID"
        /\ (~required /\ ~invalid /\ sess[1].used) => val[1] = "SESSION_USED"
        /\ (~required /\ ~invalid /\ ~sess[1].used /\ sess[1].attempts >= MAX_ATTEMPTS)
             => val[1] = "MAX_ATTEMPTS"
        /\ (~required /\ ~invalid /\ ~sess[1].used /\ sess[1].attempts < MAX_ATTEMPTS)
             => val[1] = "NONE"

\* a record that is both used and at the attempt limit was validated
C10_Witness ==
  /\ pc[1] = "validated" /\ sid[1] # EmptyId /\ sess[1] # Null
  /\ sess[1].used /\ sess[1].attempts >= MAX_ATTEMPTS
  /\ val[1] = "SESSION_USED"

\* the submissions of session s that saw its record and whose incrementAttempts
\* call has returned
IncrementedOn(s) ==
  {r \in Submits : /\ sid[r] = s /\ pc[r] = "done" /\ sess[r] # Null
                   /\ calls[r].incrementAttempts = 1}

\* no request that carries session s is under way
Quiescent(s) == \A r \in Reqs : sid[r] = s => pc[r] \in {"idle", "done"}

\* C11: once maxAttempts incrementAttempts calls on a live, unused session have
\* completed, sequentially or overlapping, the stored record is one for which
\* getSession followed by validateSession reports MAX_ATTEMPTS.
C11_MaxAttemptsReported ==
  \A s \in SessionIds :
    ( /\ store[s] # Null /\ ~gone[s] /\ ~store[s].used
      /\ Cardinality(IncrementedOn(s)) >= MAX_ATTEMPTS
      /\ Quiescent(s) )
      => validateSession(s, Touched(store[s], CreateStamp)).code = "MAX_ATTEMPTS"

\* C12: a submission of a valid session that checkHoneypotSpam classifies as
\* spam is answered 200 with success = true, and exactly one row with
\* is_spam = true and status 'blocked' is stored for it, whatever the outcome
\* of the INSERT.
C12_SpamReportedSuccess ==
  \A r \in Submits :
    (pc[r] = "done" /\ ctx[r] = "spam") =>
      /\ out[r].status = 200 /\ out[r].success
      /\ {row \in db : row.id = r} = {Row(r, TRUE, "blocked")}

\* C13: when the spam branch of submitForm finishes, by returning or by
\* raising, the record of its session has used = true.
C13_SpamConsumesToken ==
  [][\A r \in Reqs :
       (ctx[r] = "spam" /\ pc[r] # "done" /\ pc'[r] = "done" /\ store'[sid[r]] # Null)
         => store'[sid[r]].used]_vars

\* the fields of a body that are not decoy-shaped
NonDecoy(b) == [n \in {m \in DOMAIN b : ~StartsWithHp(m)} |-> b[n]]

\* C14: two accepted submissions that differ only in a filled decoy field, one
\* classified spam and one legitimate, get the same status code, success flag,
\* message and error list.
C14_ResponseHidesClassification ==
  \A r1, r2 \in Submits :
    ( /\ Accepted(r1) /\ Accepted(r2)
      /\ result[r1].isSpam /\ ~result[r2].isSpam
      /\ NonDecoy(body[r1]) = NonDecoy(body[r2]) )
      => /\ out[r1].status = out[r2].status
         /\ out[r1].success = out[r2].success
         /\ out[r1].message = out[r2].message
         /\ out[r1].errors = out[r2].errors

\* C15: at the moment submitForm returns the legitimate success for a session
\* whose record has neither expired nor been deleted, that record has
\* used = true.
C15_LegitimateMeansUsed ==
  [][\A r \in Reqs :
       ( /\ pc[r] = "save_form" /\ pc'[r] = "done" /\ result'[r].success
         /\ store'[sid[r]] # Null /\ ~gone'[sid[r]] )
         => store'[sid[r]].used]_vars

\* a value that is present and non-empty after trimming
Filled(v) == v \notin {Absent, "", " "}

\* the current decoy of the session, or a name of the decoy pattern
DecoyShaped(n, session) == n = session.honeypotField \/ StartsWithHp(n)

DecoyPart(b, session) == [n \in {m \in DOMAIN b : DecoyShaped(m, session)} |-> b[n]]

\* C16: checkHoneypotSpam is true exactly when the current decoy field or some
\* field named _hp_... carries a value that is non-empty after trimming, and
\* two field maps that agree on their decoy-shaped fields get the same answer.
C16_HoneypotExactly ==
  pc[1] = "checked" =>
    /\ isSpam[1] = (\E n \in DOMAIN body[1] :
                      DecoyShaped(n, sess[1]) /\ Filled(body[1][n]))
    /\ \A b2 \in PureBodies(sid[1]) :
         DecoyPart(b2, sess[1]) = DecoyPart(body[1], sess[1])
           => checkHoneypotSpam(b2, sess[1]) = isSpam[1]

\* the current decoy is empty, an older decoy is filled: spam
C16_Witness ==
  /\ pc[1] = "checked" /\ isSpam[1]
  /\ Field(body[1], sess[1].honeypotField) = ""
  /\ Field(body[1], F_oldDecoy) = "x"
  /\ F_email \in DOMAIN body[1]

\* the request was answered 429 by the rate limiter
Denied(r) == out[r] # NoResult /\ out[r].status = 429

\* C17: a request the rate limiter denied makes no getSession,
\* incrementAttempts or markSessionAsUsed call, stores no row and never enters
\* submitForm.
C17_DeniedNeverReachesSession ==
  \A r \in Reqs :
    Denied(r) =>
      /\ calls[r] = NoCalls
      /\ {row \in db : row.id = r} = {}
      /\ sess[r] = Null /\ tmp[r] = Null /\ ctx[r] = "none" /\ result[r] = NoResult
      /\ pc[r] = "denied"

\* a request was denied while the session it would have used is live and unused
\* and the requests before it went through submitForm
C17_Witness ==
  \E r \in Reqs : \E s \in SessionIds :
    /\ Denied(r)
    /\ store[s] # Null /\ ~store[s].used /\ store[s].attempts = 1
    /\ \A q \in Reqs \ {r} : pc[q] = "done" /\ sid[q] = s

\* submitForm rejected the request: invalid session, or field validation failed
Rejected(r) == kind[r] = "submit" /\ pc[r] = "done" /\ ctx[r] \in {"invalid", "valfail"}

\* C18: a submission rejected for its session or for its fields has called
\* incrementAttempts exactly once and markSessionAsUsed never, has stored no
\* row, and is answered success = false.
C18_RejectionFrame ==
  \A r \in Reqs :
    Rejected(r) =>
      /\ calls[r].incrementAttempts = 1
      /\ calls[r].markSessionAsUsed = 0
      /\ {row \in db : row.id = r} = {}
      /\ result[r] # Threw /\ ~result[r].success
      /\ out[r].status = 400 /\ ~out[r].success

\* one submission was rejected for a used session, another for its e-mail
C18_Witness ==
  \E r1, r2 \in Reqs :
    /\ Rejected(r1) /\ ctx[r1] = "invalid" /\ val[r1] = "SESSION_USED"
    /\ Rejected(r2) /\ ctx[r2] = "valfail"

\* C19: a record that has been marked used never has a TTL above the short
\* TTL of markSessionAsUsed, whatever calls follow.
C19_UsedKeepsShortTtl ==
  \A s \in SessionIds : (store[s] # Null /\ store[s].used) => ttl[s] <= USED_TTL

\* request r takes a step of a SessionService method
InService(r) ==
  /\ pc[r] \in {"gs_get", "gs_set", "inc_get", "inc_set", "mark_get", "mark_set", "del"}
  /\ pc'[r] # pc[r]

\* C20: no step of getSession, incrementAttempts, markSessionAsUsed or
\* deleteSession throws, whatever Redis answers: getSession hands back null or
\* the record it wrote, the other three return to their caller, which goes on;
\* a failed call leaves the store as it was, and incrementAttempts and
\* markSessionAsUsed on an absent key write nothing.
C20_StoreErrorsSwallowed ==
  [][\A r \in Reqs :
       InService(r) =>
         /\ result'[r] # Threw
         /\ out'[r] # NoResult => out'[r].status # 500
         /\ \/ storeVars' = storeVars
            \/ /\ pc[r] \in {"gs_set", "inc_set", "mark_set"}
               /\ store' = [store EXCEPT ![sid[r]] = tmp[r]]
            \/ pc[r] = "del" /\ store' = [store EXCEPT ![sid[r]] = Null]
         /\ pc[r] \in {"gs_get", "gs_set"} =>
              \/ pc'[r] = "gs_set" /\ tmp'[r] = Touched(store[sid[r]], Now(r))
              \/ sess'[r] = Null /\ storeVars' = storeVars
              \/ sess'[r] = tmp[r] /\ store'[sid[r]] = tmp[r]
         /\ pc[r] \in {"inc_get", "inc_set"} =>
              \/ pc'[r] = "inc_set"
              \/ pc'[r] = "done" /\ ~result'[r].success /\ out'[r].status = 400
         /\ pc[r] \in {"mark_get", "mark_set"} =>
              \/ pc'[r] = "mark_set"
              \/ pc'[r] = "save_form" /\ ctx[r] = "legit"
              \/ pc'[r] = "done" /\ ctx[r] = "spam" /\ result'[r].success
         /\ pc[r] = "del" => (pc'[r] = "done" /\ out'[r].status = 200 /\ out'[r].success)
         /\ (pc[r] \in {"inc_get", "mark_get"} /\ Lookup(sid[r]) = Null) =>
              (storeVars' = storeVars /\ pc'[r] \notin {"inc_set", "mark_set"})]_vars

\* the only request so far read and refreshed its record, was accepted as
\* legitimate, and the record is still unused: its markSessionAsUsed lost a
\* Redis call and returned all the same
C20_Witness ==
  \E r \in Reqs :
    /\ \A q \in Reqs \ {r} : pc[q] = "idle"
    /\ kind[r] = "submit" /\ pc[r] = "done" /\ ctx[r] = "legit" /\ result[r].success
    /\ calls[r].markSessionAsUsed = 1
    /\ store[sid[r]] # Null /\ ~gone[sid[r]]
    /\ store[sid[r]].lastAccess = Now(r) /\ ~store[sid[r]].used

\* C21: no two session records alive at the same time carry the same
\* honeypotField.
C21_DecoyNamesDistinct ==
  \A s1, s2 \in SessionIds :
    (s1 # s2 /\ store[s1] # Null /\ store[s2] # Null)
      => store[s1].honeypotField # store[s2].honeypotField

\* ids of full length, the empty id, and ids shorter and just longer than the slice
NameIds ==
  SessionIds \cup {EmptyId, <<"a", "b", "c">>,
                   <<"a", "b", "c", "d", "e", "f", "g", "h">>,
                   <<"a", "b", "c", "d", "e", "f", "g", "h", "i">>}

\* '_hp_' followed by the first 8 characters of the id, all of it when shorter
ExpectedName(id) ==
  <<"_hp_">> \o [i \in 1..(IF Len(id) < 8 THEN Len(id) ELSE 8) |-> id[i]]

C23_DeleteIdempotent ==
  [][\A r \in Reqs :
       /\ (pc[r] = "del" /\ pc'[r] = "done") =>
            /\ out'[r].status = 200 /\ out'[r].success
            /\ store'[sid[r]] = Null /\ ttl'[sid[r]] = 0
            /\ \A s \in SessionIds \ {sid[r]} : store'[s] = store[s] /\ ttl'[s] = ttl[s]
            /\ store[sid[r]] = Null => (store' = store /\ ttl' = ttl)
       /\ (pc[r] = "gs_get" /\ pc'[r] # "gs_get" /\ store[sid[r]] = Null) =>
            (sess'[r] = Null /\ pc'[r] = "done" /\ store' = store)]_vars

\* one session was deleted twice and an id that was never issued was deleted
C23_Witness ==
  \E r1, r2, r3 \in Reqs :
    /\ r1 # r2 /\ r1 # r3 /\ r2 # r3
    /\ \A r \in {r1, r2, r3} : kind[r] = "delete" /\ pc[r] = "done" /\ out[r].status = 200
    /\ sid[r1] = sid[r2] /\ gone[sid[r1]] /\ store[sid[r1]] = Null
    /\ sid[r3] \notin issued

\* the fields the introspection endpoints may show
PublicFields ==
  {"sessionId", "isValid", "isUsed", "errorCode", "honeypotField",
   "createdAt", "lastAccess", "used", "attempts"}

\* C24: a response of validate or get carries, besides status, success and
\* message, only a data object whose fields are public ones: never ip,
\* userAgent or usedAt of the record.
C24_IntrospectionHidesClient ==
  \A r \in Reqs :
    (kind[r] \in {"validate", "get"} /\ out[r] # NoResult) =>
      /\ DOMAIN out[r] = {"status", "success", "message", "data"}
      /\ out[r].data # Null => DOMAIN out[r].data \subseteq PublicFields

\* both endpoints answered for a used record that holds the client's ip and agent
C24_Witness ==
  \E r1, r2 \in Reqs :
    /\ kind[r1] = "get" /\ pc[r1] = "done" /\ out[r1].status = 200 /\ out[r1].data.used
    /\ kind[r2] = "validate" /\ pc[r2] = "done" /\ out[r2].data.isUsed
    /\ sid[r1] = sid[r2]
    /\ store[sid[r1]] # Null /\ store[sid[r1]].ip \in Ips
    /\ store[sid[r1]].userAgent = UserAgent

\* C25: no failure result of submitForm has an error entry for a field of the
\* decoy pattern or with the message that a field must be empty, with
\* honeypot checking enabled or disabled.
C25_FailureHidesHoneypot ==
  \A r \in Submits :
    (pc[r] = "done" /\ result[r] # Threw /\ ~result[r].success) =>
      \A e \in result[r].errors :
        ~StartsWithHp(e.field) /\ e.message # "MUST_BE_EMPTY"

\* C26: every 429 of the rate limiter reports a positive number of seconds
\* until reset, however the requests of one client interleave.
C26_DenialReportsPositiveReset ==
  \A r \in Reqs : Denied(r) => out[r].resetIn > 0

\* C27: the rate_limit counter of an address equals the number of requests
\* from it that the limiter counted in the current window, whatever became of
\* them afterwards.
C27_CounterCountsEveryRequest ==
  \A i \in Ips : rlCount[i] = Cardinality(Counted(i, rlWindow[i]))

\* three requests were counted: one was denied, one went on to be classified
\* spam and one was rejected by submitForm
C27_Witness ==
  \E i \in Ips : \E r1, r2, r3 \in Counted(i, rlWindow[i]) :
    /\ rlCount[i] = 3
    /\ Denied(r1)
    /\ pc[r2] = "done" /\ ctx[r2] = "spam"
    /\ Rejected(r3)

\* C28: the step in which createSession draws an id writes, under that id, a
\* record with used = false, attempts = 0 and the decoy name of the id, with
\* the full TTL, and answers with the same id and name and expiresIn = TTL.
C28_CreateWritesAndReturns ==
  [][\A id \in SessionIds :
       (id \notin issued /\ id \in issued') =>
         /\ store'[id] # Null
         /\ ~store'[id].used /\ store'[id].attempts = 0
         /\ store'[id].honeypotField = ExpectedName(id)
         /\ ttl'[id] = SESSION_TTL
         /\ \E c \in createLog' \ createLog :
              /\ c.sessionId = id /\ c.stored
              /\ c.response.status = 200 /\ c.response.success
              /\ c.response.data.sessionId = id
              /\ c.response.data.honeypotField = store'[id].honeypotField
              /\ c.response.data.expiresIn = SESSION_TTL]_vars

\* two sessions were created and both records are as created
C28_Witness ==
  \E c1, c2 \in createLog :
    /\ c1.sessionId # c2.sessionId
    /\ \A c \in {c1, c2} :
         /\ c.stored /\ store[c.sessionId] # Null
         /\ store[c.sessionId] = NewSessionData(c.sessionId, CreateStamp)
         /\ ttl[c.sessionId] = SESSION_TTL

\* C29: getSession on a live key takes the stored record, changes nothing in
\* it but lastAccess, writes it with the full TTL and returns it; on an absent
\* key it returns null and leaves the store alone.
C29_GetSessionFrame ==
  [][\A r \in Reqs :
       /\ (pc[r] = "gs_get" /\ pc'[r] # "gs_get") =>
            IF Lookup(sid[r]) # Null
              THEN /\ pc'[r] = "gs_set" /\ storeVars' = storeVars
                   /\ DOMAIN tmp'[r] = DOMAIN store[sid[r]]
                   /\ \A f \in DOMAIN store[sid[r]] \ {"lastAccess"} :
                        tmp'[r][f] = store[sid[r]][f]
                   /\ tmp'[r].lastAccess = Now(r)
              ELSE sess'[r] = Null /\ storeVars' = storeVars
       /\ (pc[r] = "gs_set" /\ pc'[r] # "gs_set") =>
            /\ sess'[r] = tmp[r]
            /\ store' = [store EXCEPT ![sid[r]] = tmp[r]]
            /\ ttl' = [ttl EXCEPT ![sid[r]] = SESSION_TTL]]_vars

\* GET /api/session/:id returned a used record, lastAccess refreshed; another
\* GET found the key absent
C29_Witness ==
  \E r1, r2 \in Reqs :
    /\ kind[r1] = "get" /\ pc[r1] = "done" /\ sess[r1] # Null
    /\ sess[r1].used /\ sess[r1].usedAt # NoStamp /\ sess[r1].ip \in Ips
    /\ sess[r1].lastAccess = Now(r1)
    /\ kind[r2] = "get" /\ pc[r2] = "done" /\ sess[r2] = Null /\ out[r2].status = 404

\* C30: submitForm reaches saveFormSubmission only after its markSessionAsUsed
\* call; when the INSERT fails it returns success = false with the save-error
\* message, raises nothing, and leaves the session record as
\* markSessionAsUsed left it.
C30_SaveFailureKeepsTokenConsumed ==
  [][\A r \in Reqs :
       (pc[r] = "save_form" /\ pc'[r] # "save_form") =>
         /\ calls[r].markSessionAsUsed = 1
         /\ storeVars' = storeVars
         /\ pc'[r] = "done" /\ result'[r] # Threw
         /\ db' = db =>
              /\ ~result'[r].success /\ result'[r].message = "SAVE_ERROR"
              /\ out'[r].status = 400 /\ ~out'[r].success]_vars

\* the INSERT of the only request failed: it was answered success = false,
\* nothing is stored and the session is used
C30_Witness ==
  \E r \in Reqs :
    /\ \A q \in Reqs \ {r} : pc[q] = "idle"
    /\ pc[r] = "done" /\ ctx[r] = "legit"
    /\ result[r] # Threw /\ ~result[r].success /\ result[r].message = "SAVE_ERROR"
    /\ db = {}
    /\ store[sid[r]] # Null /\ store[sid[r]].used

\* C31: within one window the TTL of a rate_limit key is armed at most once, by
\* the one request that observed count 1 and no TTL; no later or concurrent
\* request of the window arms it again or extends it.
C31_TtlArmedOnce ==
  /\ [](\A r \in Reqs :
          pc[r] = "rl_expire" =>
            /\ obs[r].count = 1 /\ obs[r].ttl = NoTtl
            /\ obs[r].window = rlWindow[ip[r]]
            /\ rlTtl[ip[r]] = NoTtl)
  /\ [](\A i \in Ips : \A w \in Windows :
          Cardinality({r \in Counted(i, w) : obs[r].count = 1}) <= 1)
  /\ [][\A i \in Ips :
          (rlTtl'[i] # rlTtl[i] /\ rlTtl'[i] > 0) =>
            /\ rlTtl[i] = NoTtl
            /\ \E r \in Reqs : /\ ip[r] = i /\ pc[r] = "rl_expire"
                               /\ pc'[r] # "rl_expire" /\ rlError'[r] = "none"]_vars

\* the request that opened the window has armed the TTL while another request
\* of the window, counted before that, goes on without having called expire
C31_Witness ==
  \E r1, r2 \in Reqs :
    /\ ip[r1] = ip[r2] /\ obs[r1] # NoObs /\ obs[r2] # NoObs
    /\ obs[r1].window = obs[r2].window /\ obs[r1].window = rlWindow[ip[r1]]
    /\ obs[r1].count = 1 /\ pc[r1] = "handler" /\ rlError[r1] = "none"
    /\ obs[r2].count = 2 /\ obs[r2].ttl = NoTtl /\ pc[r2] = "handler"
    /\ rlTtl[ip[r1]] = WINDOW_MS \div 1000

\* a field of a stored record that JSON carries: ip is an address, userAgent a
\* string, and either one is undefined until markSessionAsUsed assigns it
IsSet(v) == ToString(v) # ToString(Undefined)

\* C32: a stored session record has ip, userAgent and usedAt set exactly when
\* its used flag is true; the records of unused sessions, as written by
\* createSession, getSession and incrementAttempts, carry no client identity.
C32_ClientIdentityIffUsed ==
  \A s \in SessionIds :
    store[s] # Null =>
      /\ store[s].used <=> IsSet(store[s].ip)
      /\ store[s].used <=> IsSet(store[s].userAgent)
      /\ store[s].used <=> store[s].usedAt # NoStamp

\* a session that getSession and incrementAttempts wrote while it was unused
\* has been marked used by a later submission and carries that client
C32_Witness ==
  \E s \in SessionIds :
    /\ store[s] # Null /\ store[s].used
    /\ store[s].attempts >= 1 /\ store[s].lastAccess # NoStamp
    /\ store[s].ip \in Ips /\ store[s].userAgent = UserAgent
    /\ store[s].usedAt # NoStamp

\* C33: usedAt, ip and userAgent of a session are written at most once: while
\* the stored record is used, no later markSessionAsUsed, such as that of a
\* racing second submission, changes them.
C33_ClientIdentityWrittenOnce ==
  [][\A s \in SessionIds :
       (store[s] # Null /\ store[s].used /\ store'[s] # Null /\ store'[s].used) =>
         /\ store'[s].usedAt = store[s].usedAt
         /\ store'[s].ip = store[s].ip
         /\ store'[s].userAgent = store[s].userAgent]_vars

\* C34: only createSession brings a session record into existence: a key that
\* is absent, because it was deleted or has expired, is never written by the
\* write half of getSession, incrementAttempts or markSessionAsUsed.
C34_OnlyCreateBringsIntoExistence ==
  [][\A s \in SessionIds :
       (store[s] = Null /\ store'[s] # Null) => (s \notin issued /\ s \in issued')]_vars

\* C35: every write of a session key carries a TTL (SESSION_CONFIG.TTL, or the
\* shorter one of a used session), so every session on which no further
\* operation is performed is absent in the end, whether it was left created
\* or used.
C35_EverySessionExpires ==
  /\ [](\A s \in SessionIds : store[s] # Null => ttl[s] \in {SESSION_TTL, USED_TTL})
  /\ \A s \in SessionIds : <>[](store[s] = Null)

\* a used session with its short TTL on which no request is at work any more
C35_Witness ==
  \E s \in SessionIds :
    /\ store[s] # Null /\ store[s].used /\ ttl[s] = USED_TTL
    /\ \A r \in Reqs : pc[r] \in {"idle", "done"}
    /\ \E r \in Reqs : pc[r] = "done" /\ sid[r] = s /\ Accepted(r)

\* C36: with RATE_LIMIT_CONFIG.ENABLED a request reaches the submission handler
\* only after the middleware counted it and found it within the limit (or after
\* a Redis call of the middleware failed), whatever HONEYPOT_ENABLED is.
C36_LimiterIndependentOfHoneypot ==
  \A r \in Reqs :
    (RATE_LIMIT_ENABLED /\ pc[r] = "handler" /\ rlError[r] = "none") =>
      /\ obs[r] # NoObs
      /\ obs[r].count <= MAX_REQUESTS

\* C37: in the standalone server a POST /api/submit whose _honeypot field is
\* non-empty and whose other fields are valid is answered success = true and
\* stored with is_spam = true and status 'blocked'.
C37_StandaloneHoneypotStored ==
  \A r \in Reqs :
    (/\ kind[r] = "standalone" /\ pc[r] = "done" /\ ~dbFails
     /\ Field(body[r], HONEYPOT_FIELD) \notin {Absent, ""}
     /\ formSchema([n \in DOMAIN body[r] \ {HONEYPOT_FIELD} |-> body[r][n]]) = {}) =>
      /\ out[r].success
      /\ \E row \in db : row.id = r /\ row.is_spam /\ row.status = "blocked"

\* C38: validateHoneypot answers isValid = false exactly when checkHoneypotSpam
\* answers true for the same field map and decoy name, also when the current
\* decoy is empty or absent and a field of an older session is filled.
C38_ValidatorsAgree ==
  (pc[1] = "honeypot") =>
    (~result[1].isValid <=> checkHoneypotSpam(body[1], sess[1]))

\* C39: a submitForm call makes at most one write to the durable store, and
\* exactly one whenever it returns an accepted result: saveSpamSubmission on
\* the spam path, saveFormSubmission on the legitimate path, never both; each
\* call leaves at most one row.
C39_OneDurableWrite ==
  \A r \in Reqs :
    kind[r] = "submit" =>
      /\ calls[r].saveSpamSubmission + calls[r].saveFormSubmission <= 1
      /\ Cardinality({row \in db : row.id = r}) <= 1
      /\ calls[r].saveSpamSubmission = 1 => ctx[r] = "spam"
      /\ calls[r].saveFormSubmission = 1 => ctx[r] = "legit"
      /\ Accepted(r) =>
           /\ calls[r].saveSpamSubmission + calls[r].saveFormSubmission = 1
           /\ Cardinality({row \in db : row.id = r}) = 1

\* one submission was accepted as spam after its saveSpamSubmission, another
\* was accepted on the legitimate path after its saveFormSubmission, and a
\* third made its one attempt, which PostgreSQL rejected
C39_Witness ==
  \E r1, r2, r3 \in Reqs :
    /\ Accepted(r1) /\ ctx[r1] = "spam" /\ calls[r1].saveSpamSubmission = 1
    /\ Accepted(r2) /\ ctx[r2] = "legit" /\ calls[r2].saveFormSubmission = 1
    /\ pc[r3] = "done" /\ ~Accepted(r3) /\ ctx[r3] = "legit"
    /\ calls[r3].saveFormSubmission = 1
    /\ {row.id : row \in db} = {r1, r2}

====
